---------------------------- MODULE Spec2Model ----------------------------
(***************************************************************************)
(* A model of ChessPatternAnalysis (src/chess_analysis.py): the CSV load   *)
(* under the fixed schema, the null fill, the derived columns, the grouped *)
(* summaries and the report step.                                          *)
(*                                                                         *)
(* Representation.  A nullable value is a sequence of length at most one:  *)
(* <<>> is null and <<v>> is the value v.  A string that the code looks    *)
(* into (Opening, TimeControl, the text of an integer field) is a sequence *)
(* of one-character strings.  A Spark double that the code computes as a   *)
(* quotient is kept as the exact fraction [num, den]; rounding of floating *)
(* point is outside the model.  The derived column Date is not modelled.   *)
(***************************************************************************)
EXTENDS Integers, Sequences, FiniteSets, TLC

VARIABLES
    input,             \* the CSV file: [header, rows], rows are sequences of tokens
    pc,                \* position of the run: "start", "processed", "done", "failed", "exited"
    df,                \* self.df: sequence of typed rows with the derived columns
    opening_patterns,  \* result of analyze_playing_patterns (first table)
    time_patterns,     \* result of analyze_playing_patterns (second table)
    analyzed,          \* analyze_playing_patterns has returned
    strength_dist,     \* the tables of visualize_and_save_results
    opening_success,
    time_pattern,
    outcome_dist,
    files,             \* artifacts in the output directory: name -> content
    key_findings,      \* the printed key findings, <<>> when not printed
    error,             \* the exception that ended the run, "none" when none
    exit_status        \* the process exit status, -1 while running

vars == <<input, pc, df, opening_patterns, time_patterns, analyzed, strength_dist,
          opening_success, time_pattern, outcome_dist, files, key_findings, error,
          exit_status>>

---------------------------------------------------------------------------
(* Bounds of the model. *)
MaxRows == 3          \* rows of a mixed input file
MaxOpeningLen == 3    \* characters of an Opening value
MaxTimeControlLen == 2 \* characters of a TimeControl value
NumFamilies == 11     \* opening families of a many-openings input file

---------------------------------------------------------------------------
(* Nullable values. *)
Null == <<>>
Some(v) == <<v>>
IsNull(o) == o = <<>>
Val(o) == o[1]

(* Sum and maximum of a function over a finite set. *)
RECURSIVE SumOver(_, _)
SumOver(S, f) ==
    IF S = {} THEN 0
    ELSE LET x == CHOOSE y \in S : TRUE IN f[x] + SumOver(S \ {x}, f)

Range(s) == {s[i] : i \in 1..Len(s)}

---------------------------------------------------------------------------
(* The schema of process_data: column names in order, and which are        *)
(* IntegerType.                                                            *)
schema ==
    << [name |-> "Event", type |-> "string"],
       [name |-> "White", type |-> "string"],
       [name |-> "Black", type |-> "string"],
       [name |-> "Result", type |-> "string"],
       [name |-> "UTCDate", type |-> "string"],
       [name |-> "UTCTime", type |-> "string"],
       [name |-> "WhiteElo", type |-> "integer"],
       [name |-> "BlackElo", type |-> "integer"],
       [name |-> "WhiteRatingDiff", type |-> "integer"],
       [name |-> "BlackRatingDiff", type |-> "integer"],
       [name |-> "ECO", type |-> "string"],
       [name |-> "Opening", type |-> "string"],
       [name |-> "TimeControl", type |-> "string"],
       [name |-> "Termination", type |-> "string"] >>

SchemaNames == {schema[i].name : i \in 1..Len(schema)}
IntegerColumns == {schema[i].name : i \in {j \in 1..Len(schema) : schema[j].type = "integer"}}
SchemaIndex(n) == CHOOSE i \in 1..Len(schema) : schema[i].name = n

(* The columns na.fill names, each filled with 0. *)
FillColumns == {"WhiteElo", "BlackElo", "WhiteRatingDiff", "BlackRatingDiff"}

---------------------------------------------------------------------------
(* Parsing the text of an IntegerType field, as the CSV reader does: an    *)
(* optional sign and decimal digits, within 32 bits; anything else does    *)
(* not parse.                                                              *)
Digits == {"0", "1", "2", "3", "4", "5", "6", "7", "8", "9"}
DigitVal(c) ==
    CASE c = "0" -> 0 [] c = "1" -> 1 [] c = "2" -> 2 [] c = "3" -> 3 [] c = "4" -> 4
      [] c = "5" -> 5 [] c = "6" -> 6 [] c = "7" -> 7 [] c = "8" -> 8 [] c = "9" -> 9

IntMax == 2147483647
IntMin == -IntMax - 1

(* The value of a digit string, or -1 when it exceeds IntMax. *)
RECURSIVE DigitsValue(_)
DigitsValue(s) ==
    IF s = <<>> THEN 0
    ELSE LET h == DigitsValue(SubSeq(s, 1, Len(s) - 1))
             d == DigitVal(s[Len(s)])
         IN  IF h = -1 \/ h > (IntMax - d) \div 10 THEN -1 ELSE 10 * h + d

(* The digits of IntMax + 1, the magnitude of IntMin. *)
IsIntMinDigits(s) ==
    /\ s # <<>>
    /\ DigitsValue(SubSeq(s, 1, Len(s) - 1)) = (IntMax \div 10)
    /\ DigitVal(s[Len(s)]) = (IntMax % 10) + 1

ParseInt(s) ==
    LET signed == s # <<>> /\ s[1] \in {"-", "+"}
        negative == signed /\ s[1] = "-"
        body == IF signed THEN Tail(s) ELSE s
    IN  IF body = <<>> \/ \E i \in 1..Len(body) : body[i] \notin Digits THEN Null
        ELSE IF DigitsValue(body) # -1
             THEN Some(IF negative THEN 0 - DigitsValue(body) ELSE DigitsValue(body))
        ELSE IF negative /\ IsIntMinDigits(body) THEN Some(IntMin)
        ELSE Null

(* One token of a row converted to the type of its schema field.  The      *)
(* reader runs in its default (permissive) mode: a token that does not     *)
(* convert becomes null, and no error is raised.                           *)
Cast(tok, type) ==
    IF IsNull(tok) THEN Null
    ELSE IF type = "integer" THEN ParseInt(Val(tok))
    ELSE tok

(* spark.read.csv(file_path, header=True, schema=schema): the header line  *)
(* is skipped and the schema is applied to the tokens of each row by       *)
(* position; a row shorter than the schema has null in the fields it       *)
(* lacks, and tokens beyond the schema are dropped.                        *)
ReadRow(tokens) ==
    [n \in SchemaNames |->
        IF SchemaIndex(n) <= Len(tokens)
        THEN Cast(tokens[SchemaIndex(n)], schema[SchemaIndex(n)].type)
        ELSE Null]

read_csv(file) == [i \in 1..Len(file.rows) |-> ReadRow(file.rows[i])]

(* Faulty variant: the fill names the two ratings only. *)
na_fill_elo_only(row) ==
    [n \in SchemaNames |->
        IF n \in {"WhiteElo", "BlackElo"} /\ IsNull(row[n]) THEN Some(0) ELSE row[n]]

(* df.na.fill({...: 0}) on one row. *)
na_fill(row) ==
    [n \in SchemaNames |-> IF n \in FillColumns /\ IsNull(row[n]) THEN Some(0) ELSE row[n]]

---------------------------------------------------------------------------
(* Column expressions.  A comparison or contains() on null is null, and    *)
(* when() takes a branch only when its condition is true.                  *)
Ge(o, n) == IF IsNull(o) THEN Null ELSE Some(Val(o) >= n)
Contains(o, c) == IF IsNull(o) THEN Null ELSE Some(\E i \in 1..Len(Val(o)) : Val(o)[i] = c)
EqStr(o, s) == IF IsNull(o) THEN Null ELSE Some(Val(o) = s)
IsTrue(b) == b = Some(TRUE)

MasterElo == 2400
ExpertElo == 2000
ClubElo == 1600

(* Faulty variant: the thresholds are exclusive. *)
StrengthCategory_exclusive(WhiteElo) ==
    IF IsTrue(Ge(WhiteElo, MasterElo + 1)) THEN "Master"
    ELSE IF IsTrue(Ge(WhiteElo, ExpertElo + 1)) THEN "Expert"
    ELSE IF IsTrue(Ge(WhiteElo, ClubElo + 1)) THEN "Club"
    ELSE "Beginner"

StrengthCategory(WhiteElo) ==
    IF IsTrue(Ge(WhiteElo, MasterElo)) THEN "Master"
    ELSE IF IsTrue(Ge(WhiteElo, ExpertElo)) THEN "Expert"
    ELSE IF IsTrue(Ge(WhiteElo, ClubElo)) THEN "Club"
    ELSE "Beginner"

(* Length of the longest prefix of s without ":". *)
RECURSIVE PrefixLen(_)
PrefixLen(s) ==
    IF s = <<>> \/ s[1] = ":" THEN 0 ELSE 1 + PrefixLen(Tail(s))

(* Faulty variant: no match gives null instead of the empty string. *)
regexp_extract_null_unmatched(o) ==
    IF IsNull(o) THEN Null
    ELSE IF PrefixLen(Val(o)) = 0 THEN Null
    ELSE Some(SubSeq(Val(o), 1, PrefixLen(Val(o))))

(* regexp_extract(col, "^[^:]+", 0): null for null; the matched prefix;    *)
(* the empty string when the pattern does not match.                       *)
regexp_extract(o) ==
    IF IsNull(o) THEN Null
    ELSE IF PrefixLen(Val(o)) = 0 THEN Some(<<>>)
    ELSE Some(SubSeq(Val(o), 1, PrefixLen(Val(o))))

(* Faulty variant: "|" is tested before "+". *)
TimeFormat_pipe_first(TimeControl) ==
    IF IsTrue(Contains(TimeControl, "|")) THEN "Tournament"
    ELSE IF IsTrue(Contains(TimeControl, "+")) THEN "Increment"
    ELSE "Standard"

TimeFormat(TimeControl) ==
    IF IsTrue(Contains(TimeControl, "+")) THEN "Increment"
    ELSE IF IsTrue(Contains(TimeControl, "|")) THEN "Tournament"
    ELSE "Standard"

DerivedNames == {"StrengthCategory", "OpeningFamily", "TimeFormat"}

with_derived(row) ==
    [n \in SchemaNames \cup DerivedNames |->
        IF n = "StrengthCategory" THEN StrengthCategory(row["WhiteElo"])
        ELSE IF n = "OpeningFamily" THEN regexp_extract(row["Opening"])
        ELSE IF n = "TimeFormat" THEN TimeFormat(row["TimeControl"])
        ELSE row[n]]

---------------------------------------------------------------------------
(* process_data on a file: read, fill, derive. *)
fill_step(rows) == [i \in 1..Len(rows) |-> na_fill(rows[i])]
derive_step(rows) == [i \in 1..Len(rows) |-> with_derived(rows[i])]
loaded(file) == derive_step(fill_step(read_csv(file)))

---------------------------------------------------------------------------
(* Grouped aggregation.  A table without a stated order is a set of rows.  *)
Rows(d) == 1..Len(d)
Min(a, b) == IF a <= b THEN a ELSE b

(* count("*") of the rows of d whose columns cols equal those of row r. *)
SameKey(d, cols, r) == {i \in Rows(d) : \A c \in cols : d[i][c] = r[c]}

(* avg(WhiteElo) over the rows I of d: nulls are skipped, and the average  *)
(* of no value is null.                                                    *)
avg_WhiteElo(d, I) ==
    LET J == {i \in I : ~IsNull(d[i].WhiteElo)}
    IN  IF J = {} THEN Null
        ELSE Some([num |-> SumOver(J, [i \in J |-> Val(d[i].WhiteElo)]),
                   den |-> Cardinality(J)])

(* Pattern 1: groupBy(StrengthCategory, OpeningFamily).agg(count) ... *)
opening_counts(d) ==
    {[StrengthCategory |-> d[i].StrengthCategory,
      OpeningFamily |-> d[i].OpeningFamily,
      Count |-> Cardinality(SameKey(d, {"StrengthCategory", "OpeningFamily"}, d[i]))]
        : i \in Rows(d)}

(* Faulty variant: the sum runs over the whole table, not the partition. *)
partition_total_global(G, g) == SumOver(G, [h \in G |-> h.Count])

(* sum("Count").over(Window.partitionBy("StrengthCategory")) for row g. *)
partition_total(G, g) ==
    LET P == {h \in G : h.StrengthCategory = g.StrengthCategory}
    IN  SumOver(P, [h \in P |-> h.Count])

(* ... .withColumn("Percentage", Count / partition total * 100) *)
opening_patterns_of(d) ==
    LET G == opening_counts(d)
    IN  {[StrengthCategory |-> g.StrengthCategory,
          OpeningFamily |-> g.OpeningFamily,
          Count |-> g.Count,
          Percentage |-> [num |-> g.Count * 100, den |-> partition_total(G, g)]]
            : g \in G}

(* Pattern 2: groupBy(TimeFormat, StrengthCategory).agg(count, avg(WhiteElo)) *)
time_patterns_of(d) ==
    {[TimeFormat |-> d[i].TimeFormat,
      StrengthCategory |-> d[i].StrengthCategory,
      GamesCount |-> Cardinality(SameKey(d, {"TimeFormat", "StrengthCategory"}, d[i])),
      AverageRating |-> avg_WhiteElo(d, SameKey(d, {"TimeFormat", "StrengthCategory"}, d[i]))]
        : i \in Rows(d)}

(* groupBy(col).count() *)
count_by(d, c) ==
    {[key |-> d[i][c], count |-> Cardinality(SameKey(d, {c}, d[i]))] : i \in Rows(d)}

(* when(col("Result") == "1-0", 1).otherwise(0) *)
WhiteWin == <<"1-0">>
win_indicator(Result) == IF IsTrue(EqStr(Result, WhiteWin)) THEN 1 ELSE 0

(* groupBy(OpeningFamily).agg(count as games_count, avg(indicator)) *)
opening_groups(d) ==
    {[OpeningFamily |-> d[i].OpeningFamily,
      games_count |-> Cardinality(SameKey(d, {"OpeningFamily"}, d[i])),
      white_win_rate |->
          LET I == SameKey(d, {"OpeningFamily"}, d[i])
          IN  [num |-> SumOver(I, [j \in I |-> win_indicator(d[j].Result)]),
               den |-> Cardinality(I)]]
        : i \in Rows(d)}

(* Faulty variant: ascending order. *)
RECURSIVE order_by_asc(_)
order_by_asc(G) ==
    IF G = {} THEN {<<>>}
    ELSE LET low == {g \in G : \A h \in G : g.games_count <= h.games_count}
         IN  UNION {{<<g>> \o s : s \in order_by_asc(G \ {g})} : g \in low}

(* orderBy(desc("games_count")): every order of G with non-increasing     *)
(* games_count; rows of equal games_count come in any order.               *)
RECURSIVE order_by_desc(_)
order_by_desc(G) ==
    IF G = {} THEN {<<>>}
    ELSE LET top == {g \in G : \A h \in G : h.games_count <= g.games_count}
         IN  UNION {{<<g>> \o s : s \in order_by_desc(G \ {g})} : g \in top}

TopN == 10
limit(s) == SubSeq(s, 1, Min(TopN, Len(s)))

(* format(x, ".0f") of the fraction x: rounded to the nearest integer,     *)
(* a tie to the even one.                                                  *)
round_0f(x) ==
    LET q == x.num \div x.den
        r == x.num % x.den
    IN  IF 2 * r < x.den THEN q
        ELSE IF 2 * r > x.den THEN q + 1
        ELSE IF q % 2 = 0 THEN q ELSE q + 1

---------------------------------------------------------------------------
(* Artifacts of visualize_and_save_results, in the order they are written. *)
Charts == <<"strength_distribution.png", "opening_success.png", "time_control_dist.png",
            "rating_distribution.png", "game_outcomes.png">>
Png == [table |-> "png", rows |-> {}]
NoFiles == [n \in {} |-> Png]
ChartFiles(k) == [n \in {Charts[i] : i \in 1..k} |-> Png]

(* Faulty variant: the outcome table is left out of results. *)
results_without_outcome(os, tp, od) ==
    [n \in {"opening_analysis.csv", "time_control_analysis.csv"} |->
        IF n = "opening_analysis.csv" THEN [table |-> "opening_success", rows |-> Range(os)]
        ELSE [table |-> "time_pattern", rows |-> tp]]

(* results = {...}; for name, data in results.items(): data.to_csv(...) *)
results(os, tp, od) ==
    [n \in {"opening_analysis.csv", "time_control_analysis.csv", "outcome_analysis.csv"} |->
        IF n = "opening_analysis.csv" THEN [table |-> "opening_success", rows |-> Range(os)]
        ELSE IF n = "time_control_analysis.csv" THEN [table |-> "time_pattern", rows |-> tp]
        ELSE [table |-> "outcome_dist", rows |-> od]]

AllFiles(os, tp, od) ==
    [n \in Range(Charts) \cup DOMAIN results(os, tp, od) |->
        IF n \in Range(Charts) THEN Png ELSE results(os, tp, od)[n]]

---------------------------------------------------------------------------
(* Input files.  A token is null when the field is empty in the file, and  *)
(* otherwise the text of the field.  A Result is kept as one symbol.       *)
Text(s) == Some(s)
Absent == Null

HeaderFull == [i \in 1..Len(schema) |-> schema[i].name]
HeaderMissing == SelectSeq(HeaderFull, LAMBDA n : n # "BlackElo")
HeaderExtra == Append(HeaderFull, "Moves")
HeaderSwapped ==
    [i \in 1..Len(schema) |->
        IF HeaderFull[i] = "WhiteElo" THEN "BlackElo"
        ELSE IF HeaderFull[i] = "BlackElo" THEN "WhiteElo"
        ELSE HeaderFull[i]]
Headers == {HeaderFull, HeaderMissing, HeaderExtra, HeaderSwapped}

ColumnNames == SchemaNames \cup {"Moves"}

(* The values of one game, by column name. *)
Game(we, be, wrd, brd, res, op, tc) ==
    [n \in ColumnNames |->
        CASE n = "WhiteElo" -> we
          [] n = "BlackElo" -> be
          [] n = "WhiteRatingDiff" -> wrd
          [] n = "BlackRatingDiff" -> brd
          [] n = "Result" -> res
          [] n = "Opening" -> op
          [] n = "TimeControl" -> tc
          [] OTHER -> Text(<<"x">>)]

(* The line of a file with the given header that holds the game g. *)
FileRow(header, g) == [i \in 1..Len(header) |-> g[header[i]]]
File(header, games) ==
    [header |-> header, rows |-> [i \in 1..Len(games) |-> FileRow(header, games[i])]]

SeqsUpTo(A, n) == UNION {[1..k -> A] : k \in 0..n}

EloTokens ==
    {Absent, Text(<<>>), Text(<<"a", "b", "c">>), Text(<<"-", "5">>),
     Text(<<"1", "5", "9", "9">>), Text(<<"1", "6", "0", "0">>),
     Text(<<"1", "9", "9", "9">>), Text(<<"2", "0", "0", "0">>),
     Text(<<"2", "3", "9", "9">>), Text(<<"2", "4", "0", "0">>),
     Text(<<"2", "1", "4", "7", "4", "8", "3", "6", "4", "8">>)}
DiffTokens == {Absent, Text(<<"-", "5">>), Text(<<"1", "2", "x">>)}
ResultTokens == {Absent, Text(<<"1-0">>), Text(<<"0-1">>), Text(<<"1/2-1/2">>)}
OpeningTokens == {Absent} \cup {Text(s) : s \in SeqsUpTo({"a", ":"}, MaxOpeningLen)}
TimeControlTokens == {Absent} \cup {Text(s) : s \in SeqsUpTo({"6", "+", "|"}, MaxTimeControlLen)}

(* Files of one game: every rating text with every result. *)
RatingFiles ==
    {File(HeaderFull, <<Game(we, d, d, d, res, Text(<<"a">>), Text(<<"6">>))>>)
        : we \in EloTokens, d \in DiffTokens, res \in ResultTokens}

(* Files of one game: every opening with every time control. *)
TextFiles ==
    {File(HeaderFull, <<Game(Text(<<"1", "6", "0", "0">>), Absent, Absent, Absent,
                             Text(<<"1-0">>), op, tc)>>)
        : op \in OpeningTokens, tc \in TimeControlTokens}

(* Files of up to MaxRows games, under every header. *)
MixedGames ==
    {Game(Text(<<"2", "4", "0", "0">>), Text(<<"1", "6", "0", "0">>), Text(<<"-", "5">>),
          Text(<<"5">>), Text(<<"1-0">>), Text(<<"a", ":", "a">>), Text(<<"6", "+">>)),
     Game(Text(<<"a", "b", "c">>), Text(<<"-", "5">>), Absent, Text(<<"5">>),
          Text(<<"0-1">>), Text(<<"a">>), Text(<<"|">>)),
     Game(Absent, Absent, Text(<<"1", "2", "x">>), Absent, Absent, Absent, Absent),
     Game(Text(<<"2", "4", "0", "0">>), Text(<<"2", "0", "0", "0">>), Text(<<"5">>),
          Text(<<"-", "5">>), Text(<<"1/2-1/2">>), Text(<<":", "a">>), Text(<<"|", "+">>)),
     Game(Text(<<"1", "5", "9", "9">>), Text(<<"a", "b", "c">>), Text(<<"5">>),
          Text(<<"5">>), Text(<<"1-0">>), Text(<<"b">>), Text(<<"6">>))}

MixedFiles == {File(h, gs) : h \in Headers, gs \in SeqsUpTo(MixedGames, MaxRows)}

(* Files with many opening families: family f is played in (f+1) \div 2    *)
(* games, so that families tie in pairs; odd games name a variation.       *)
FamilyName(f) == [i \in 1..f |-> "a"]
FamilyResult(f, j, p) ==
    LET k == (f + j * p) % 4
    IN  IF k = 0 THEN Text(<<"1-0">>) ELSE IF k = 1 THEN Text(<<"0-1">>)
        ELSE IF k = 2 THEN Absent ELSE Text(<<"1/2-1/2">>)
FamilyGame(f, j, p) ==
    Game(Text(<<"1", "6", "0", "0">>), Absent, Absent, Absent, FamilyResult(f, j, p),
         IF j % 2 = 1 THEN Text(FamilyName(f) \o <<":", "v">>) ELSE Text(FamilyName(f)),
         Text(<<"6">>))
RECURSIVE FamilyGames(_, _)
FamilyGames(k, p) ==
    IF k = 0 THEN <<>>
    ELSE FamilyGames(k - 1, p) \o [j \in 1..((k + 1) \div 2) |-> FamilyGame(k, j, p)]

ManyFiles == {File(HeaderFull, FamilyGames(k, p)) : k \in 0..NumFamilies, p \in 1..2}

Inputs == RatingFiles \cup TextFiles \cup MixedFiles \cup ManyFiles

---------------------------------------------------------------------------
Init ==
    /\ input \in Inputs
    /\ pc = "start"
    /\ df = <<>>
    /\ opening_patterns = {}
    /\ time_patterns = {}
    /\ analyzed = FALSE
    /\ strength_dist = {}
    /\ opening_success = <<>>
    /\ time_pattern = {}
    /\ outcome_dist = {}
    /\ files = NoFiles
    /\ key_findings = Null
    /\ error = "none"
    /\ exit_status = -1

(* run_pipeline, first step: self.df = self.process_data(input_path).      *)
(* Nothing in the load raises for a file that can be read.                 *)
process_data ==
    /\ pc = "start"
    /\ df' = loaded(input)
    /\ pc' = "processed"
    /\ UNCHANGED <<input, opening_patterns, time_patterns, analyzed, strength_dist,
                   opening_success, time_pattern, outcome_dist, files, key_findings,
                   error, exit_status>>

(* analyze_playing_patterns(df) on the processed dataset. *)
analyze_playing_patterns ==
    /\ pc \in {"processed", "done", "failed"}
    /\ ~analyzed
    /\ opening_patterns' = opening_patterns_of(df)
    /\ time_patterns' = time_patterns_of(df)
    /\ analyzed' = TRUE
    /\ UNCHANGED <<input, pc, df, strength_dist, opening_success, time_pattern,
                   outcome_dist, files, key_findings, error, exit_status>>

(* plt.barh takes the OpeningFamily values as category labels; a null      *)
(* among them is not a label, and the renderer may reject it.              *)
barh_outcomes(os) ==
    IF \E i \in 1..Len(os) : IsNull(os[i].OpeningFamily) THEN {"ok", "TypeError"} ELSE {"ok"}

(* run_pipeline, second step: self.visualize_and_save_results(output_path) *)
visualize_and_save_results ==
    /\ pc = "processed"
    /\ \E sorted \in order_by_desc(opening_groups(df)) :
       \E barh \in barh_outcomes(limit(sorted)) :
          /\ strength_dist' = count_by(df, "StrengthCategory")
          /\ opening_success' = limit(sorted)
          /\ \/ /\ barh = "TypeError"
                /\ files' = ChartFiles(1)
                /\ error' = "TypeError"
                /\ pc' = "failed"
                /\ UNCHANGED <<time_pattern, outcome_dist, key_findings>>
             \/ /\ barh = "ok"
                /\ time_pattern' = count_by(df, "TimeFormat")
                /\ outcome_dist' = count_by(df, "Result")
                /\ files' = AllFiles(limit(sorted), count_by(df, "TimeFormat"),
                                     count_by(df, "Result"))
                /\ IF IsNull(avg_WhiteElo(df, Rows(df)))
                   THEN /\ error' = "TypeError"
                        /\ pc' = "failed"
                        /\ UNCHANGED key_findings
                   ELSE /\ key_findings' =
                              Some([total |-> Len(df),
                                    unique_openings |-> Cardinality({df[i].Opening : i \in Rows(df)}),
                                    average_rating |-> round_0f(Val(avg_WhiteElo(df, Rows(df))))])
                        /\ pc' = "done"
                        /\ UNCHANGED error
    /\ UNCHANGED <<input, df, opening_patterns, time_patterns, analyzed, exit_status>>

(* main: the exception of a failed run ends the process with status 1. *)
main ==
    /\ pc \in {"done", "failed"}
    /\ exit_status' = IF pc = "failed" THEN 1 ELSE 0
    /\ pc' = "exited"
    /\ UNCHANGED <<input, df, opening_patterns, time_patterns, analyzed, strength_dist,
                   opening_success, time_pattern, outcome_dist, files, key_findings, error>>

Next ==
    \/ process_data
    \/ analyze_playing_patterns
    \/ visualize_and_save_results
    \/ main

Spec == Init /\ [][Next]_vars

---------------------------------------------------------------------------
(* Vocabulary of the properties. *)

(* The token of input row i at the position of schema column n; null when  *)
(* the row has no such position.                                           *)
Token(i, n) ==
    IF SchemaIndex(n) <= Len(input.rows[i]) THEN input.rows[i][SchemaIndex(n)] ELSE Null

Loaded == pc # "start"
Visualized == pc \in {"done", "failed", "exited"}
HasChar(o, c) == ~IsNull(o) /\ \E k \in 1..Len(Val(o)) : Val(o)[k] = c
RowsWith(c, v) == {i \in Rows(df) : df[i][c] = v}

(* s up to but excluding its first ":", the whole of s when it has none. *)
UpToColon(s) ==
    LET colons == {k \in 1..Len(s) : s[k] = ":"}
    IN  IF colons = {} THEN s
        ELSE SubSeq(s, 1, (CHOOSE k \in colons : \A m \in colons : k <= m) - 1)

---------------------------------------------------------------------------
(* C1: after process_data every record's StrengthCategory is decided by    *)
(* its WhiteElo alone: Master from 2400, Expert from 2000 to 2399, Club    *)
(* from 1600 to 1999, Beginner below 1600; a record whose WhiteElo was     *)
(* absent in the file has rating 0 and is a Beginner.                      *)
C1_StrengthCategory ==
    Loaded =>
        \A i \in Rows(df) :
            LET w == df[i].WhiteElo
                c == df[i].StrengthCategory
            IN  /\ ~IsNull(w)
                /\ Val(w) >= 2400 => c = "Master"
                /\ (2000 <= Val(w) /\ Val(w) < 2400) => c = "Expert"
                /\ (1600 <= Val(w) /\ Val(w) < 2000) => c = "Club"
                /\ Val(w) < 1600 => c = "Beginner"
                /\ IsNull(Token(i, "WhiteElo")) => (w = Some(0) /\ c = "Beginner")

C1_Witness ==
    /\ Loaded
    /\ \E i, j \in Rows(df) :
          /\ IsNull(Token(i, "WhiteElo")) /\ df[i].StrengthCategory = "Beginner"
          /\ df[j].WhiteElo = Some(2400) /\ df[j].StrengthCategory = "Master"

(* C2: after process_data every record's TimeFormat is Increment when its  *)
(* TimeControl contains "+", Tournament when it contains "|" and no "+",   *)
(* and Standard otherwise, also for an absent or empty TimeControl.        *)
C2_TimeFormat ==
    Loaded =>
        \A i \in Rows(df) :
            LET tc == df[i].TimeControl
                f == df[i].TimeFormat
            IN  /\ f \in {"Increment", "Tournament", "Standard"}
                /\ HasChar(tc, "+") => f = "Increment"
                /\ (HasChar(tc, "|") /\ ~HasChar(tc, "+")) => f = "Tournament"
                /\ (~HasChar(tc, "|") /\ ~HasChar(tc, "+")) => f = "Standard"

C2_Witness ==
    /\ Loaded
    /\ \E i, j \in Rows(df) :
          /\ HasChar(df[i].TimeControl, "+") /\ HasChar(df[i].TimeControl, "|")
          /\ df[i].TimeFormat = "Increment"
          /\ IsNull(df[j].TimeControl) /\ df[j].TimeFormat = "Standard"

(* C3 as stated: after process_data every record has an OpeningFamily,     *)
(* the Opening up to its first ":" or the whole Opening, also when the     *)
(* Opening is absent.                                                      *)
C3_AlwaysDerivable ==
    Loaded =>
        \A i \in Rows(df) :
            /\ ~IsNull(df[i].OpeningFamily)
            /\ ~IsNull(df[i].Opening) =>
                   Val(df[i].OpeningFamily) = UpToColon(Val(df[i].Opening))

(* C3 amended: after process_data a record with an Opening (empty or       *)
(* starting with ":" included) has as OpeningFamily the Opening up to its  *)
(* first ":" or the whole Opening, and a record whose Opening is absent    *)
(* has no OpeningFamily (null).                                            *)
C3_OpeningFamily ==
    Loaded =>
        \A i \in Rows(df) :
            IF IsNull(df[i].Opening) THEN IsNull(df[i].OpeningFamily)
            ELSE df[i].OpeningFamily = Some(UpToColon(Val(df[i].Opening)))

C3_Witness ==
    /\ Loaded
    /\ \E i, j \in Rows(df) :
          /\ ~IsNull(df[i].Opening) /\ Len(Val(df[i].Opening)) > 1
          /\ Val(df[i].Opening)[1] = ":" /\ df[i].OpeningFamily = Some(<<>>)
          /\ IsNull(df[j].Opening) /\ IsNull(df[j].OpeningFamily)

(* C4: in the opening-pattern summary, Count of a group is the number of   *)
(* records of that StrengthCategory and OpeningFamily, and Percentage is   *)
(* 100 * Count over the number of records of that StrengthCategory; the    *)
(* Counts of one StrengthCategory add up to that denominator and the       *)
(* Percentages to 100.                                                     *)
C4_Percentage ==
    analyzed =>
        \A g \in opening_patterns :
            LET P == {h \in opening_patterns : h.StrengthCategory = g.StrengthCategory}
                n == Cardinality(RowsWith("StrengthCategory", g.StrengthCategory))
            IN  /\ g.Count = Cardinality({i \in Rows(df) :
                                 /\ df[i].StrengthCategory = g.StrengthCategory
                                 /\ df[i].OpeningFamily = g.OpeningFamily})
                /\ n > 0
                /\ g.Percentage = [num |-> 100 * g.Count, den |-> n]
                /\ SumOver(P, [h \in P |-> h.Count]) = n
                /\ SumOver(P, [h \in P |-> h.Percentage.num]) = 100 * n

C4_Witness ==
    /\ analyzed
    /\ \E g, h, k \in opening_patterns :
          /\ g.StrengthCategory = h.StrengthCategory
          /\ g.OpeningFamily # h.OpeningFamily
          /\ k.StrengthCategory # g.StrengthCategory

(* C5: after process_data no record has a null WhiteElo, BlackElo,         *)
(* WhiteRatingDiff or BlackRatingDiff, and a value absent in the file is   *)
(* 0; in the time-management summary GamesCount counts every record of     *)
(* the group and AverageRating is the sum of their WhiteElo over           *)
(* GamesCount.                                                             *)
C5_FilledAndAveraged ==
    /\ Loaded =>
          \A i \in Rows(df) : \A n \in {"WhiteElo", "BlackElo", "WhiteRatingDiff", "BlackRatingDiff"} :
              /\ ~IsNull(df[i][n])
              /\ IsNull(Token(i, n)) => df[i][n] = Some(0)
    /\ analyzed =>
          \A g \in time_patterns :
              LET I == {i \in Rows(df) : /\ df[i].TimeFormat = g.TimeFormat
                                         /\ df[i].StrengthCategory = g.StrengthCategory}
              IN  /\ g.GamesCount = Cardinality(I)
                  /\ g.AverageRating =
                         Some([num |-> SumOver(I, [i \in I |-> Val(df[i].WhiteElo)]),
                               den |-> g.GamesCount])

C5_Witness ==
    /\ analyzed
    /\ \E i, j \in Rows(df) :
          /\ IsNull(Token(i, "WhiteElo"))
          /\ df[j].WhiteElo # Some(0)
          /\ df[i].TimeFormat = df[j].TimeFormat
          /\ df[i].StrengthCategory = df[j].StrengthCategory

(* C6: a run on a file with a header and no data row produces empty        *)
(* summary tables and ends without an error and without exit status 1.     *)
C6_EmptyInputCompletes ==
    (Len(input.rows) = 0 /\ Visualized) =>
        /\ opening_success = <<>> /\ time_pattern = {} /\ outcome_dist = {}
        /\ error = "none"
        /\ exit_status # 1

(* C7: a present value of an integer column that does not parse as an      *)
(* integer makes the load fail with a TypeCoercionError and is never       *)
(* loaded as 0 (stated for a file whose header is that of the schema).     *)
C7_MalformedIsFatal ==
    (Loaded /\ input.header = HeaderFull) =>
        \A i \in 1..Len(input.rows) : \A n \in IntegerColumns :
            (~IsNull(Token(i, n)) /\ IsNull(ParseInt(Val(Token(i, n))))) =>
                /\ error = "TypeCoercionError"
                /\ i \in Rows(df) => df[i][n] # Some(0)

(* C8: when the header lacks a column of the schema the load fails with a  *)
(* SchemaMismatch before anything is derived or written; a column is       *)
(* matched to its schema field by its header name (stated for a file with  *)
(* at least one data row).                                                 *)
C8_MissingColumnIsFatal ==
    (Loaded /\ Len(input.rows) > 0) =>
        /\ (\E n \in SchemaNames : n \notin Range(input.header)) =>
               (error = "SchemaMismatch" /\ df = <<>> /\ DOMAIN files = {})
        /\ (\A n \in SchemaNames : n \in Range(input.header)) =>
               \A i \in Rows(df) : \A k \in 1..Len(input.header) :
                   input.header[k] \in {"Result", "Opening", "TimeControl"} =>
                       df[i][input.header[k]] = input.rows[i][k]

(* C9 as stated: after a successful run each of the four summary tables    *)
(* (category counts, opening win rates, time formats, results) is a        *)
(* delimited file in the output directory.                                 *)
C9_FourTablesPersisted ==
    pc = "done" =>
        \A t \in {"strength_dist", "opening_success", "time_pattern", "outcome_dist"} :
            \E n \in DOMAIN files : files[n].table = t

(* C9 amended: after a successful run three summary tables are delimited   *)
(* files in the output directory, the opening win-rate table, the          *)
(* time-format distribution and the result distribution; the               *)
(* category-count table is drawn as strength_distribution.png and is not   *)
(* written as a delimited file.                                            *)
C9_ThreeTablesPersisted ==
    pc = "done" =>
        /\ {"opening_analysis.csv", "time_control_analysis.csv", "outcome_analysis.csv",
            "strength_distribution.png"} \subseteq DOMAIN files
        /\ files["opening_analysis.csv"] =
               [table |-> "opening_success", rows |-> Range(opening_success)]
        /\ files["time_control_analysis.csv"] = [table |-> "time_pattern", rows |-> time_pattern]
        /\ files["outcome_analysis.csv"] = [table |-> "outcome_dist", rows |-> outcome_dist]
        /\ \A n \in DOMAIN files : files[n].table # "strength_dist"

C9_Witness ==
    /\ pc = "done"
    /\ Cardinality(strength_dist) > 1
    /\ Cardinality(outcome_dist) > 1
    /\ "outcome_analysis.csv" \in DOMAIN files

(* C10: the opening win-rate table has min(10, number of distinct          *)
(* OpeningFamily values) rows, one per OpeningFamily, in non-increasing    *)
(* games_count; no family left out has more games than one in the table;   *)
(* games_count is the number of records of the family and white_win_rate   *)
(* the number of them with Result "1-0" over games_count.                  *)
C10_TopOpenings ==
    Visualized =>
        LET families == {df[i].OpeningFamily : i \in Rows(df)}
            shown == {opening_success[k].OpeningFamily : k \in 1..Len(opening_success)}
        IN  /\ Len(opening_success) = Min(10, Cardinality(families))
            /\ shown \subseteq families
            /\ Cardinality(shown) = Len(opening_success)
            /\ \A k \in 1..Len(opening_success) - 1 :
                   opening_success[k].games_count >= opening_success[k + 1].games_count
            /\ \A v \in families \ shown : \A k \in 1..Len(opening_success) :
                   Cardinality(RowsWith("OpeningFamily", v)) <= opening_success[k].games_count
            /\ \A k \in 1..Len(opening_success) :
                   LET r == opening_success[k]
                       I == RowsWith("OpeningFamily", r.OpeningFamily)
                   IN  /\ r.games_count = Cardinality(I)
                       /\ r.white_win_rate =
                              [num |-> Cardinality({i \in I : df[i].Result = Some(<<"1-0">>)}),
                               den |-> r.games_count]

C10_Witness ==
    /\ pc = "done"
    /\ Len(opening_success) = 10
    /\ Cardinality({df[i].OpeningFamily : i \in Rows(df)}) > 10
    /\ \E i \in Rows(df) :
          /\ df[i].OpeningFamily \notin
                 {opening_success[k].OpeningFamily : k \in 1..Len(opening_success)}
          /\ Cardinality(RowsWith("OpeningFamily", df[i].OpeningFamily)) =
                 opening_success[10].games_count
    /\ \E k \in 1..10 : opening_success[k].white_win_rate.num > 0

=============================================================================
